---- MODULE Spec2Model ----
(***************************************************************************)
(* Model of equinix-otel-tools (src/src/lib.rs): the TRACEPARENT           *)
(* environment slot, its read / update-if-different operations, the two    *)
(* span activation policies, the scoped activation guard and the           *)
(* traceparent emitter.                                                    *)
(*                                                                         *)
(* Texts are sequences of one-character strings.  Identifiers are          *)
(* sequences of hexadecimal digit values (0..15) of the fixed widths of    *)
(* the W3C text format, so that 128-bit and 64-bit values never have to    *)
(* fit an integer.  An Option<T> is a sequence of length 0 (None) or 1     *)
(* (Some).                                                                 *)
(***************************************************************************)
EXTENDS Integers, Sequences, FiniteSets

VARIABLES TRACEPARENT, sampler, current, guards, started, last, race,
          OTEL_SERVICE_NAME, subscriber

vars == <<TRACEPARENT, sampler, current, guards, started, last, race,
          OTEL_SERVICE_NAME, subscriber>>

(***************************************************************************)
(* Bounds.                                                                 *)
(***************************************************************************)
\* spans the tracer may start in one run
MaxSpans == 2

(***************************************************************************)
(* Option values.                                                          *)
(***************************************************************************)
None == <<>>

Some(x) == <<x>>

IsSome(o) == Len(o) = 1

Unwrap(o) == o[1]

(***************************************************************************)
(* Trace Context Codec (crate traceparent, spec section 4.1).              *)
(***************************************************************************)
TRACE_WIDTH == 32

SPAN_WIDTH == 16

HexLower == <<"0", "1", "2", "3", "4", "5", "6", "7", "8", "9", "a", "b", "c", "d", "e", "f">>

HexUpper == <<"0", "1", "2", "3", "4", "5", "6", "7", "8", "9", "A", "B", "C", "D", "E", "F">>

HexChars == {HexLower[i] : i \in 1..16} \cup {HexUpper[i] : i \in 1..16}

\* value of each hexadecimal character, either case
HexTable ==
    [c \in HexChars |->
        (CHOOSE i \in 1..16 : HexLower[i] = c \/ HexUpper[i] = c) - 1]

IsHex(c) == c \in HexChars

HexVal(c) == HexTable[c]

AllHex(s) == \A i \in 1..Len(s) : IsHex(s[i])

\* a field of hex characters as a sequence of digit values
Digits(s) == [i \in 1..Len(s) |-> HexVal(s[i])]

\* a two-character hex field as a byte
Byte(s) == 16 * HexVal(s[1]) + HexVal(s[2])

ZeroId(w) == [i \in 1..w |-> 0]

\* s.split('-'): the fields between the hyphens, empty fields included
Split(s) ==
    LET H == {i \in 1..Len(s) : s[i] = "-"}
        n == Cardinality(H)
        \* position of the k-th hyphen; 0 and Len(s) + 1 close the ends
        cut(k) == IF k = 0 THEN 0
                  ELSE IF k = n + 1 THEN Len(s) + 1
                  ELSE CHOOSE i \in H : Cardinality({j \in H : j < i}) = k - 1
    IN  [k \in 1..(n + 1) |-> SubSeq(s, cut(k - 1) + 1, cut(k) - 1)]

\* traceparent::parse: Some(context) for a well-formed text, None for an error
parse(text) ==
    LET parts == Split(text) IN
    IF Len(parts) # 4 THEN None
    ELSE IF Len(parts[1]) # 2 \/ Len(parts[2]) # TRACE_WIDTH
            \/ Len(parts[3]) # SPAN_WIDTH \/ Len(parts[4]) # 2 THEN None
    ELSE IF \E k \in 1..4 : ~AllHex(parts[k]) THEN None
    ELSE LET version == Byte(parts[1])
             trace_id == Digits(parts[2])
             parent_id == Digits(parts[3])
         IN  IF version # 0 THEN None
             ELSE IF trace_id = ZeroId(TRACE_WIDTH) THEN None
             ELSE IF parent_id = ZeroId(SPAN_WIDTH) THEN None
             ELSE Some([version |-> version, trace_id |-> trace_id,
                        parent_id |-> parent_id, flags |-> Byte(parts[4])])

\* traceparent::make(false) as used by update_traceparent: the comparison
\* baseline when no context is stored
make_bogus ==
    [version |-> 0, trace_id |-> ZeroId(TRACE_WIDTH),
     parent_id |-> ZeroId(SPAN_WIDTH), flags |-> 0]

\* fixed-width lowercase rendering of a digit sequence ("{}" of an id)
LowerHexStr(ds) == [i \in 1..Len(ds) |-> HexLower[ds[i] + 1]]

UpperHexStr(ds) == [i \in 1..Len(ds) |-> HexUpper[ds[i] + 1]]

\* "{:02x}" of a byte
LowerHexByte(b) == <<HexLower[(b \div 16) + 1], HexLower[(b % 16) + 1]>>

(***************************************************************************)
(* Context Store: the TRACEPARENT environment slot.                        *)
(***************************************************************************)
\* read_traceparent that hands out a placeholder context for a rejected slot
read_traceparent_placeholder(env) ==
    IF IsSome(env) THEN
        LET r == parse(Unwrap(env)) IN
        IF IsSome(r) THEN Some(Unwrap(r)) ELSE Some(make_bogus)
    ELSE None

\* read_traceparent: the parsed slot, None when unset or rejected by parse
read_traceparent(env) ==
    IF IsSome(env) THEN
        LET r == parse(Unwrap(env)) IN
        IF IsSome(r) THEN Some(Unwrap(r)) ELSE None
    ELSE None

\* opentelemetry::trace::TraceFlags::SAMPLED
SAMPLED == 1

\* an as_spancontext that passes the flags byte of the traceparent on
as_spancontext_keepflags(tp) ==
    [trace_id |-> tp.trace_id, span_id |-> tp.parent_id,
     flags |-> tp.flags, is_remote |-> FALSE]

\* ToSpanContext::as_spancontext: ids of the traceparent, flags forced to
\* SAMPLED, is_remote false
as_spancontext(tp) ==
    [trace_id |-> tp.trace_id, span_id |-> tp.parent_id,
     flags |-> SAMPLED, is_remote |-> FALSE]

\* update_traceparent that reports the change without writing the slot
update_traceparent_nowrite(env, new_traceparent) ==
    LET cur == read_traceparent(env)
        current_tp == IF IsSome(cur) THEN Unwrap(cur) ELSE make_bogus
        parsed == parse(new_traceparent)
    IN  IF IsSome(parsed) /\ Unwrap(parsed) # current_tp
        THEN [env |-> env, ret |-> Some(as_spancontext(Unwrap(parsed)))]
        ELSE [env |-> env, ret |-> None]

\* update_traceparent without the comparison against the stored context
update_traceparent_always(env, new_traceparent) ==
    LET parsed == parse(new_traceparent) IN
    IF IsSome(parsed)
    THEN [env |-> Some(new_traceparent),
          ret |-> Some(as_spancontext(Unwrap(parsed)))]
    ELSE [env |-> env, ret |-> None]

\* update_traceparent that stores the text before it is parsed
update_traceparent_unchecked(env, new_traceparent) ==
    LET cur == read_traceparent(env)
        current_tp == IF IsSome(cur) THEN Unwrap(cur) ELSE make_bogus
        parsed == parse(new_traceparent)
    IN  IF IsSome(parsed) THEN
            IF Unwrap(parsed) = current_tp
            THEN [env |-> env, ret |-> None]
            ELSE [env |-> Some(new_traceparent),
                  ret |-> Some(as_spancontext(Unwrap(parsed)))]
        ELSE [env |-> Some(new_traceparent), ret |-> None]

\* update_traceparent that compares the trace id and the parent id only
update_traceparent_ids_only(env, new_traceparent) ==
    LET cur == read_traceparent(env)
        current_tp == IF IsSome(cur) THEN Unwrap(cur) ELSE make_bogus
        parsed == parse(new_traceparent)
    IN  IF IsSome(parsed) THEN
            IF /\ Unwrap(parsed).trace_id = current_tp.trace_id
               /\ Unwrap(parsed).parent_id = current_tp.parent_id
            THEN [env |-> env, ret |-> None]
            ELSE [env |-> Some(new_traceparent),
                  ret |-> Some(as_spancontext(Unwrap(parsed)))]
        ELSE [env |-> env, ret |-> None]

\* update_traceparent that returns the context that was stored before
update_traceparent_report_old(env, new_traceparent) ==
    LET cur == read_traceparent(env)
        current_tp == IF IsSome(cur) THEN Unwrap(cur) ELSE make_bogus
        parsed == parse(new_traceparent)
    IN  IF IsSome(parsed) THEN
            IF Unwrap(parsed) = current_tp
            THEN [env |-> env, ret |-> None]
            ELSE [env |-> Some(new_traceparent),
                  ret |-> Some(as_spancontext(current_tp))]
        ELSE [env |-> env, ret |-> None]

\* update_traceparent that removes the variable when the text is rejected
update_traceparent_clear_on_error(env, new_traceparent) ==
    LET cur == read_traceparent(env)
        current_tp == IF IsSome(cur) THEN Unwrap(cur) ELSE make_bogus
        parsed == parse(new_traceparent)
    IN  IF IsSome(parsed) THEN
            IF Unwrap(parsed) = current_tp
            THEN [env |-> env, ret |-> None]
            ELSE [env |-> Some(new_traceparent),
                  ret |-> Some(as_spancontext(Unwrap(parsed)))]
        ELSE [env |-> None, ret |-> None]

\* update_traceparent: the slot after the call and the value returned
update_traceparent(env, new_traceparent) ==
    LET cur == read_traceparent(env)
        current_tp == IF IsSome(cur) THEN Unwrap(cur) ELSE make_bogus
        parsed == parse(new_traceparent)
    IN  IF IsSome(parsed) THEN
            IF Unwrap(parsed) = current_tp
            THEN [env |-> env, ret |-> None]
            ELSE [env |-> Some(new_traceparent),
                  ret |-> Some(as_spancontext(Unwrap(parsed)))]
        ELSE [env |-> env, ret |-> None]

(***************************************************************************)
(* Tracing runtime (crate opentelemetry): span contexts, spans, the        *)
(* current context and its guard.                                          *)
(***************************************************************************)
\* SpanContext::NONE
NONE_CONTEXT ==
    [trace_id |-> ZeroId(TRACE_WIDTH), span_id |-> ZeroId(SPAN_WIDTH),
     flags |-> 0, is_remote |-> FALSE]

\* SpanContext::is_valid
is_valid(sc) ==
    sc.trace_id # ZeroId(TRACE_WIDTH) /\ sc.span_id # ZeroId(SPAN_WIDTH)

\* the span context of the span a Context carries (NONE without a span)
span_context(cx) == IF IsSome(cx) THEN Unwrap(cx).ctx ELSE NONE_CONTEXT

\* Context::new().with_remote_span_context(sc)
with_remote_span_context(sc) ==
    Some([ctx |-> sc, parent_id |-> ZeroId(SPAN_WIDTH), links |-> {}])

\* Tracer::start_with_context: a child of the span of parent_cx when that
\* is valid (same trace, sampling decision of the parent), a root span with
\* the generated trace id and the sampler's decision otherwise
start_with_context(parent_cx, tid, sid, decision) ==
    LET p == span_context(parent_cx) IN
    IF is_valid(p)
    THEN [ctx |-> [trace_id |-> p.trace_id, span_id |-> sid,
                   flags |-> p.flags % 2, is_remote |-> FALSE],
          parent_id |-> p.span_id, links |-> {}]
    ELSE [ctx |-> [trace_id |-> tid, span_id |-> sid,
                   flags |-> IF decision THEN SAMPLED ELSE 0,
                   is_remote |-> FALSE],
          parent_id |-> ZeroId(SPAN_WIDTH), links |-> {}]

\* Tracer::start: start_with_context under the current context
tracer_start(cur, tid, sid, decision) ==
    start_with_context(cur, tid, sid, decision)

\* Span::add_link
add_link(span, sc) == [span EXCEPT !.links = @ \cup {sc}]

\* a start_with_traceparent that falls back to the all-zero context, as
\* update_traceparent does, when the slot is set but does not parse
start_with_traceparent_or_bogus(env, cur, tid, sid, decision) ==
    LET tp == read_traceparent(env) IN
    IF IsSome(env)
    THEN start_with_context(
             with_remote_span_context(
                 as_spancontext(IF IsSome(tp) THEN Unwrap(tp)
                                ELSE make_bogus)),
             tid, sid, decision)
    ELSE tracer_start(cur, tid, sid, decision)

(***************************************************************************)
(* Span Activation Bridge.                                                 *)
(***************************************************************************)
\* start_with_traceparent that never builds the remote parent context
start_with_traceparent_unparented(env, cur, tid, sid, decision) ==
    tracer_start(cur, tid, sid, decision)

\* start_with_traceparent: the span that is started
start_with_traceparent(env, cur, tid, sid, decision) ==
    LET tp == read_traceparent(env) IN
    IF IsSome(tp)
    THEN start_with_context(
             with_remote_span_context(as_spancontext(Unwrap(tp))),
             tid, sid, decision)
    ELSE tracer_start(cur, tid, sid, decision)

\* start_with_spanlink that starts the span and forgets the link
start_with_spanlink_unlinked(env, cur, tid, sid, decision) ==
    tracer_start(cur, tid, sid, decision)

\* start_with_spanlink: the span that is started
start_with_spanlink(env, cur, tid, sid, decision) ==
    LET span == tracer_start(cur, tid, sid, decision)
        tp == read_traceparent(env)
    IN  IF IsSome(tp) THEN add_link(span, as_spancontext(Unwrap(tp)))
        ELSE span

\* mark_span_as_active: the current context with the span attached
mark_span_as_active(span) == Some(span)

\* the ContextGuard returned by mark_span_as_active: it remembers the
\* context that was current when the span was attached
ContextGuard(span, cur) == [span |-> span, prev |-> cur]

(***************************************************************************)
(* Context Emitter.                                                        *)
(***************************************************************************)
SUPPORTED_VERSION == 0

\* generate_traceparent that renders the id of the parent of the active
\* span in place of the id of the span itself
generate_traceparent_parent(cur) ==
    LET sc == span_context(cur) IN
    IF is_valid(sc)
    THEN Some(LowerHexByte(SUPPORTED_VERSION) \o <<"-">>
              \o LowerHexStr(sc.trace_id) \o <<"-">>
              \o LowerHexStr(Unwrap(cur).parent_id) \o <<"-">>
              \o LowerHexByte(IF sc.flags % 2 = 1 THEN SAMPLED ELSE 0))
    ELSE None

\* generate_traceparent that leaves the flags field at 00
generate_traceparent_noflags(cur) ==
    LET sc == span_context(cur) IN
    IF is_valid(sc)
    THEN Some(LowerHexByte(SUPPORTED_VERSION) \o <<"-">>
              \o LowerHexStr(sc.trace_id) \o <<"-">>
              \o LowerHexStr(sc.span_id) \o <<"-">>
              \o LowerHexByte(0))
    ELSE None

\* a generate_traceparent that writes the span id before the trace id
generate_traceparent_swapped(cur) ==
    LET sc == span_context(cur) IN
    IF is_valid(sc)
    THEN Some(LowerHexByte(SUPPORTED_VERSION) \o <<"-">>
              \o LowerHexStr(sc.span_id) \o <<"-">>
              \o LowerHexStr(sc.trace_id) \o <<"-">>
              \o LowerHexByte(IF sc.flags % 2 = 1 THEN SAMPLED ELSE 0))
    ELSE None

\* generate_traceparent: the text for the active span, None when the
\* active span context is not valid
generate_traceparent(cur) ==
    LET sc == span_context(cur) IN
    IF is_valid(sc)
    THEN Some(LowerHexByte(SUPPORTED_VERSION) \o <<"-">>
              \o LowerHexStr(sc.trace_id) \o <<"-">>
              \o LowerHexStr(sc.span_id) \o <<"-">>
              \o LowerHexByte(IF sc.flags % 2 = 1 THEN SAMPLED ELSE 0))
    ELSE None

(***************************************************************************)
(* Inputs: the texts the environment and the callers may supply, and the   *)
(* identifiers the tracer's id generator may produce.                      *)
(***************************************************************************)
T1 == <<4, 11, 15, 9, 2, 15, 3, 5, 7, 7, 11, 3, 4, 13, 10, 6, 10, 3, 12, 14, 9, 2, 9, 13, 0, 14, 0, 14, 4, 7, 3, 6>>

P1 == <<0, 0, 15, 0, 6, 7, 10, 10, 0, 11, 10, 9, 0, 2, 11, 7>>

T2 == <<0, 10, 15, 7, 6, 5, 1, 9, 1, 6, 12, 13, 4, 3, 13, 13, 8, 4, 4, 8, 14, 11, 2, 1, 1, 12, 8, 0, 3, 1, 9, 12>>

P2 == <<11, 7, 10, 13, 6, 11, 7, 1, 6, 9, 2, 0, 3, 3, 3, 1>>

\* the text "vv-tttt-pppp-ff" in lowercase hexadecimal
Text(v, t, p, f) ==
    LowerHexByte(v) \o <<"-">> \o LowerHexStr(t) \o <<"-">>
    \o LowerHexStr(p) \o <<"-">> \o LowerHexByte(f)

\* 00-4bf92f3577b34da6a3ce929d0e0e4736-00f067aa0ba902b7-01
TxtA == Text(0, T1, P1, 1)

\* the same context with the flags byte 00
TxtA0 == Text(0, T1, P1, 0)

\* the same context as TxtA written with uppercase hexadecimal digits
TxtAU ==
    LowerHexByte(0) \o <<"-">> \o UpperHexStr(T1) \o <<"-">>
    \o UpperHexStr(P1) \o <<"-">> \o LowerHexByte(1)

\* another trace and parent
TxtB == Text(0, T2, P2, 1)

WellFormedTexts == {TxtA, TxtA0, TxtAU, TxtB}

\* version other than 00
BadVersion == Text(1, T1, P1, 1)

\* all-zero trace id, all-zero parent id
ZeroTrace == Text(0, ZeroId(TRACE_WIDTH), P1, 1)

ZeroParent == Text(0, T1, ZeroId(SPAN_WIDTH), 1)

\* a character that is no hexadecimal digit in the trace id
NonHex == [TxtA EXCEPT ![4] = "g"]

\* three fields only, a trace id of 31 characters
ThreeFields == SubSeq(TxtA, 1, 2 + 1 + TRACE_WIDTH + 1 + SPAN_WIDTH)

ShortTrace == SubSeq(TxtA, 1, 3) \o SubSeq(TxtA, 5, Len(TxtA))

MalformedTexts ==
    {BadVersion, ZeroTrace, ZeroParent, NonHex, ThreeFields, ShortTrace}

SampleTexts == WellFormedTexts \cup MalformedTexts

\* the values the environment may hold for TRACEPARENT at start
InitialTexts == {TxtA, NonHex}

\* the identifiers the tracer's id generator draws for the k-th span it
\* starts: non-zero, pairwise different, different from the sample ids
FreshTrace(k) == [i \in 1..TRACE_WIDTH |-> IF i = TRACE_WIDTH THEN k ELSE 13]

FreshSpan(k) == [i \in 1..SPAN_WIDTH |-> IF i = SPAN_WIDTH THEN k ELSE 14]

(***************************************************************************)
(* State machine.  sampler is the decision the configured sampler takes    *)
(* for a span without a parent.  last records the operation just           *)
(* performed, its text argument, its result and the slot it found.  race   *)
(* holds the calls of update_traceparent that run concurrently; there are  *)
(* none in the sequential specification.  OTEL_SERVICE_NAME is the         *)
(* environment variable of that name, a sequence of bytes when set, and    *)
(* subscriber the global default subscriber of the tracing crate; only     *)
(* init touches them.                                                      *)
(***************************************************************************)
NoRace == <<>>

NoCall == [op |-> "init", arg |-> None, ret |-> None, pre |-> None]

\* no global default subscriber has been set
NoSubscriber == "none"

Init ==
    /\ sampler \in BOOLEAN
    /\ TRACEPARENT \in {None} \cup {Some(t) : t \in InitialTexts}
    /\ current = None
    /\ guards = <<>>
    /\ started = 0
    /\ last = NoCall
    /\ race = NoRace
    /\ OTEL_SERVICE_NAME = None
    /\ subscriber = NoSubscriber

\* a call of read_traceparent
Read ==
    /\ last' = [NoCall EXCEPT !.op = "read",
                               !.ret = read_traceparent(TRACEPARENT)]
    /\ UNCHANGED <<TRACEPARENT, sampler, current, guards, started, race,
                   OTEL_SERVICE_NAME, subscriber>>

\* the texts a caller passes to update_traceparent: the sample texts and
\* the text generate_traceparent has just returned
UpdateInputs ==
    SampleTexts \cup
    (IF last.op = "emit" /\ IsSome(last.ret) THEN {Unwrap(last.ret)} ELSE {})

\* a call of update_traceparent(t)
Update ==
    \E t \in UpdateInputs :
        LET r == update_traceparent(TRACEPARENT, t) IN
        /\ TRACEPARENT' = r.env
        /\ last' = [op |-> "update", arg |-> Some(t), ret |-> r.ret,
                    pre |-> TRACEPARENT]
        /\ UNCHANGED <<sampler, current, guards, started, race,
                   OTEL_SERVICE_NAME, subscriber>>

\* a start that returns a guard for the span without marking it active
Activate_unmarked(op, span) ==
    /\ current' = current
    /\ guards' = Append(guards, ContextGuard(span, current))
    /\ started' = started + 1
    /\ last' = [NoCall EXCEPT !.op = op, !.ret = Some(span)]
    /\ UNCHANGED <<TRACEPARENT, sampler, race,
                   OTEL_SERVICE_NAME, subscriber>>

\* the effect of starting a span and marking it active
Activate(op, span) ==
    /\ current' = mark_span_as_active(span)
    /\ guards' = Append(guards, ContextGuard(span, current))
    /\ started' = started + 1
    /\ last' = [NoCall EXCEPT !.op = op, !.ret = Some(span)]
    /\ UNCHANGED <<TRACEPARENT, sampler, race,
                   OTEL_SERVICE_NAME, subscriber>>

\* a call of start_with_traceparent
StartWithTraceparent ==
    /\ started < MaxSpans
    /\ Activate("start_with_traceparent",
                start_with_traceparent(TRACEPARENT, current,
                                       FreshTrace(started + 1),
                                       FreshSpan(started + 1), sampler))

\* a call of start_with_spanlink
StartWithSpanlink ==
    /\ started < MaxSpans
    /\ Activate("start_with_spanlink",
                start_with_spanlink(TRACEPARENT, current,
                                    FreshTrace(started + 1),
                                    FreshSpan(started + 1), sampler))

\* a generate_traceparent that also stores the text in the slot
EmitAndStore ==
    /\ last' = [NoCall EXCEPT !.op = "emit",
                               !.ret = generate_traceparent(current)]
    /\ TRACEPARENT' = IF IsSome(generate_traceparent(current))
                      THEN generate_traceparent(current)
                      ELSE TRACEPARENT
    /\ UNCHANGED <<sampler, current, guards, started, race,
                   OTEL_SERVICE_NAME, subscriber>>

\* a call of generate_traceparent
Emit ==
    /\ last' = [NoCall EXCEPT !.op = "emit",
                               !.ret = generate_traceparent(current)]
    /\ UNCHANGED <<TRACEPARENT, sampler, current, guards, started, race,
                   OTEL_SERVICE_NAME, subscriber>>

\* the drop of a ContextGuard: the context that was current at its
\* activation becomes current again.  Callers release guards in the reverse
\* order of acquisition (the scope discipline the guard is made for), so
\* the guard dropped is the one acquired last.
Release ==
    /\ guards # <<>>
    /\ current' = guards[Len(guards)].prev
    /\ guards' = SubSeq(guards, 1, Len(guards) - 1)
    /\ last' = [NoCall EXCEPT !.op = "release",
                               !.ret = Some(guards[Len(guards)].span)]
    /\ UNCHANGED <<TRACEPARENT, sampler, started, race,
                   OTEL_SERVICE_NAME, subscriber>>

Next ==
    \/ Read
    \/ Update
    \/ StartWithTraceparent
    \/ StartWithSpanlink
    \/ Emit
    \/ Release

Spec == Init /\ [][Next]_vars

(***************************************************************************)
(* Properties of the Context Store.                                        *)
(***************************************************************************)
\* the call just made was update_traceparent
Updated == last.op = "update"

\* C1: from an unset slot, update(t) with a well-formed t reports a change
\* and a read made right after it yields exactly parse(t).
C1_UpdateFromUnset ==
    (Updated /\ last.pre = None /\ IsSome(parse(Unwrap(last.arg))))
        => /\ IsSome(last.ret)
           /\ read_traceparent(TRACEPARENT) = parse(Unwrap(last.arg))

C1_Witness ==
    /\ Updated
    /\ last.pre = None
    /\ last.arg = Some(TxtB)
    /\ IsSome(last.ret)
    /\ TRACEPARENT = Some(TxtB)

\* C2: a second update with the text of the update made just before it
\* reports no change and leaves the slot as it was.
C2_UpdateIdempotent ==
    [][(/\ Updated
        /\ last'.op = "update"
        /\ last'.arg = last.arg
        /\ IsSome(parse(Unwrap(last.arg))))
           => (last'.ret = None /\ TRACEPARENT' = TRACEPARENT)]_vars

\* the slot holds a text no environment supplied, so an update wrote it, and
\* an update with that very text has just reported no change
C2_Witness ==
    /\ Updated
    /\ last.pre = Some(TxtB)
    /\ last.arg = Some(TxtB)
    /\ last.ret = None
    /\ TRACEPARENT = Some(TxtB)

\* C3: update with a text that parse rejects reports no change and leaves
\* the slot as it was, whatever the slot held.
C3_UpdateRejectsMalformed ==
    (Updated /\ ~IsSome(parse(Unwrap(last.arg))))
        => (last.ret = None /\ TRACEPARENT = last.pre)

C3_Witness ==
    /\ Updated
    /\ last.arg = Some(ZeroTrace)
    /\ last.pre = Some(NonHex)
    /\ last.ret = None
    /\ TRACEPARENT = Some(NonHex)

\* two contexts differ in at least one of their four fields
FieldsDiffer(c, d) ==
    \/ c.version # d.version
    \/ c.trace_id # d.trace_id
    \/ c.parent_id # d.parent_id
    \/ c.flags # d.flags

\* C4: over a valid stored context c, update with a text that parses to d
\* writes the text and reports a change exactly when d differs from c in one
\* of version, trace id, parent id, flags; otherwise the slot stays as it was.
C4_ChangeDetectionExact ==
    (Updated /\ IsSome(read_traceparent(last.pre))
             /\ IsSome(parse(Unwrap(last.arg))))
        => LET c == Unwrap(read_traceparent(last.pre))
               d == Unwrap(parse(Unwrap(last.arg)))
           IN  /\ IsSome(last.ret) <=> FieldsDiffer(c, d)
               /\ FieldsDiffer(c, d) => TRACEPARENT = last.arg
               /\ ~FieldsDiffer(c, d) => TRACEPARENT = last.pre

\* a text that differs from the stored one in the flags byte only was written
C4_Witness ==
    /\ Updated
    /\ last.pre = Some(TxtA)
    /\ last.arg = Some(TxtA0)
    /\ IsSome(last.ret)
    /\ TRACEPARENT = Some(TxtA0)

\* C5: read yields None exactly when the slot is unset or holds a text that
\* parse rejects, and the parsed context otherwise; its result is always an
\* Option, never an error.
C5_ReadTotal ==
    last.op = "read"
        => /\ last.ret = None
                <=> (TRACEPARENT = None \/ parse(Unwrap(TRACEPARENT)) = None)
           /\ IsSome(last.ret) => last.ret = parse(Unwrap(TRACEPARENT))
           /\ Len(last.ret) \in {0, 1}

C5_Witness ==
    /\ last.op = "read"
    /\ TRACEPARENT = Some(NonHex)
    /\ last.ret = None

\* C6: a step that changes the slot is a call of update_traceparent; read,
\* both activations, emit and guard release leave the slot as it is.
C6_UpdateOnlyMutator ==
    [][/\ TRACEPARENT' # TRACEPARENT => last'.op = "update"
       /\ last'.op \in {"read", "start_with_traceparent",
                        "start_with_spanlink", "emit", "release"}
              => TRACEPARENT' = TRACEPARENT]_vars

\* a guard was released after both spans of the run were started, and the
\* slot still holds the text an update stored
C6_Witness ==
    /\ last.op = "release"
    /\ started = MaxSpans
    /\ TRACEPARENT = Some(TxtB)

(***************************************************************************)
(* Properties of the Span Activation Bridge.                               *)
(***************************************************************************)
\* the span just started, the context that was current when it was
\* started, and the ambient context it found in the slot (no activation
\* writes the slot, so the slot still holds what the activation read)
NewSpan == Unwrap(last.ret)

ActiveBefore == guards[Len(guards)].prev

Ambient == read_traceparent(TRACEPARENT)

\* the span has no parent and carries the trace id drawn for it
IsFreshRoot(span) ==
    /\ span.parent_id = ZeroId(SPAN_WIDTH)
    /\ span.ctx.trace_id = FreshTrace(started)

\* the span continues the trace of the context, as a child of its span
IsChildOf(span, trace_id, span_id) ==
    /\ span.ctx.trace_id = trace_id
    /\ span.parent_id = span_id

\* C7 as stated: with a valid ambient context the span started by
\* start_with_traceparent has the ambient trace id and the ambient parent id
\* as its parent; with no ambient context it is a root span with a fresh
\* trace id.
C7_Original ==
    last.op = "start_with_traceparent"
        => IF IsSome(Ambient)
           THEN IsChildOf(NewSpan, Unwrap(Ambient).trace_id,
                          Unwrap(Ambient).parent_id)
           ELSE IsFreshRoot(NewSpan)

\* C7 amended: with a valid ambient context the span started by
\* start_with_traceparent has the ambient trace id and the ambient parent id
\* as its parent; with no ambient context it is a root span with a fresh
\* trace id when no span is active at the call, and a child of the active
\* span when one is.
C7_ContinueAsParent ==
    last.op = "start_with_traceparent"
        => IF IsSome(Ambient)
           THEN IsChildOf(NewSpan, Unwrap(Ambient).trace_id,
                          Unwrap(Ambient).parent_id)
           ELSE IF ActiveBefore = None
           THEN IsFreshRoot(NewSpan)
           ELSE IsChildOf(NewSpan, Unwrap(ActiveBefore).ctx.trace_id,
                          Unwrap(ActiveBefore).ctx.span_id)

\* a span was started under the ambient context while another span was
\* active
C7_Witness ==
    /\ last.op = "start_with_traceparent"
    /\ TRACEPARENT = Some(TxtA)
    /\ ActiveBefore # None
    /\ NewSpan.ctx.trace_id = T1
    /\ NewSpan.parent_id = P1

\* the span carries a link to the context
HasLinkTo(span, tp) ==
    \E l \in span.links : l.trace_id = tp.trace_id /\ l.span_id = tp.parent_id

\* the link of start_with_spanlink is there exactly for a valid ambient
\* context
LinkIffAmbient(span) ==
    IF IsSome(Ambient)
    THEN HasLinkTo(span, Unwrap(Ambient)) /\ Cardinality(span.links) = 1
    ELSE span.links = {}

\* C8 as stated: the span started by start_with_spanlink is never a child
\* of the ambient context, its trace id differs from the ambient trace id,
\* and it carries a link to the ambient context exactly when the slot held
\* a valid context.
C8_Original ==
    last.op = "start_with_spanlink"
        => /\ IsSome(Ambient)
                => /\ NewSpan.ctx.trace_id # Unwrap(Ambient).trace_id
                   /\ ~IsChildOf(NewSpan, Unwrap(Ambient).trace_id,
                                 Unwrap(Ambient).parent_id)
           /\ LinkIffAmbient(NewSpan)

\* C8 amended: when no span is active at the call, the span started by
\* start_with_spanlink is a root span whose fresh trace id differs from the
\* ambient trace id; when a span is active it is a child of that span; in
\* both cases it carries a link to the ambient context exactly when the slot
\* held a valid context.
C8_CorrelateAsLink ==
    last.op = "start_with_spanlink"
        => /\ IF ActiveBefore = None
              THEN /\ IsFreshRoot(NewSpan)
                   /\ IsSome(Ambient)
                        => NewSpan.ctx.trace_id # Unwrap(Ambient).trace_id
              ELSE IsChildOf(NewSpan, Unwrap(ActiveBefore).ctx.trace_id,
                             Unwrap(ActiveBefore).ctx.span_id)
           /\ LinkIffAmbient(NewSpan)

\* a root span with a link to the valid ambient context was started
C8_Witness ==
    /\ last.op = "start_with_spanlink"
    /\ TRACEPARENT = Some(TxtA)
    /\ ActiveBefore = None
    /\ NewSpan.parent_id = ZeroId(SPAN_WIDTH)
    /\ NewSpan.ctx.trace_id # T1
    /\ \E l \in NewSpan.links : l.trace_id = T1 /\ l.span_id = P1

\* the context that was current before the i-th outstanding activation
\* when activations nest: the span of the activation below it
Enclosing(i) == IF i = 1 THEN None ELSE Some(guards[i - 1].span)

\* C9: activations nest like a stack: the active span is the span of the
\* innermost activation not yet released (none when all are released), and
\* each guard restores the span of the activation that encloses it.
C9_ActivationNests ==
    /\ current = Enclosing(Len(guards) + 1)
    /\ \A i \in 1..Len(guards) : guards[i].prev = Enclosing(i)

\* the inner of two nested activations was released and the outer span is
\* the active one again
C9_Witness ==
    /\ last.op = "release"
    /\ started = 2
    /\ Len(guards) = 1
    /\ current = Some(guards[1].span)
    /\ last.ret # current

(***************************************************************************)
(* Properties of the Context Emitter.                                      *)
(***************************************************************************)
LowerHexChars == {HexLower[i] : i \in 1..16}

Emitted == Unwrap(last.ret)

\* C10: emit returns nothing when no span is active or the ids of the active
\* span are zero; otherwise it returns "00-T-S-ff": 55 characters, lowercase
\* hexadecimal digits between hyphens, T the 32 digits of the trace id of
\* the active span, S the 16 digits of its span id, ff 01 for a sampled span
\* and 00 otherwise.
C10_EmitFormat ==
    last.op = "emit"
        => IF current = None \/ ~is_valid(Unwrap(current).ctx)
           THEN last.ret = None
           ELSE /\ IsSome(last.ret)
                /\ Len(Emitted) = 2 + 1 + TRACE_WIDTH + 1 + SPAN_WIDTH + 1 + 2
                /\ \A i \in 1..Len(Emitted) :
                       IF i \in {3, 36, 53} THEN Emitted[i] = "-"
                       ELSE Emitted[i] \in LowerHexChars
                /\ SubSeq(Emitted, 1, 2) = <<"0", "0">>
                /\ Digits(SubSeq(Emitted, 4, 35)) = Unwrap(current).ctx.trace_id
                /\ Digits(SubSeq(Emitted, 37, 52)) = Unwrap(current).ctx.span_id
                /\ SubSeq(Emitted, 54, 55) =
                       IF Unwrap(current).ctx.flags % 2 = 1
                       THEN <<"0", "1">> ELSE <<"0", "0">>

\* the text of a sampled child of the ambient context was emitted
C10_Witness ==
    /\ last.op = "emit"
    /\ IsSome(last.ret)
    /\ current # None
    /\ Unwrap(current).ctx.trace_id = T1
    /\ Unwrap(current).ctx.flags = SAMPLED
    /\ SubSeq(Emitted, 54, 55) = <<"0", "1">>

(***************************************************************************)
(* Properties of one propagation hop.                                      *)
(***************************************************************************)
\* the fields of a text of the traceparent layout
TraceSegment(text) == Digits(SubSeq(text, 4, 35))

ParentSegment(text) == Digits(SubSeq(text, 37, 52))

FlagsSegment(text) == SubSeq(text, 54, 55)

\* C11: with a valid ambient context in the slot, an emit made right after
\* start_with_traceparent, its guard held, returns a text whose trace id
\* segment is the ambient trace id, whose parent id segment is the id of
\* the new span and differs from the ambient parent id, and whose flags
\* segment is 01.
C11_HopEmit ==
    [][(/\ last.op = "start_with_traceparent"
        /\ last'.op = "emit"
        /\ IsSome(Ambient))
           => /\ IsSome(last'.ret)
              /\ TraceSegment(Unwrap(last'.ret)) = Unwrap(Ambient).trace_id
              /\ ParentSegment(Unwrap(last'.ret)) = NewSpan.ctx.span_id
              /\ ParentSegment(Unwrap(last'.ret)) # Unwrap(Ambient).parent_id
              /\ FlagsSegment(Unwrap(last'.ret)) = <<"0", "1">>]_(last.op)

\* the text of the span that continues the ambient context of TxtA0 (flags
\* byte 00) was emitted while the guard of that span is the only one held
C11_Witness ==
    /\ last.op = "emit"
    /\ IsSome(last.ret)
    /\ TRACEPARENT = Some(TxtA0)
    /\ Len(guards) = 1
    /\ guards[1].span.parent_id = P1
    /\ current = Some(guards[1].span)
    /\ TraceSegment(Emitted) = T1
    /\ ParentSegment(Emitted) = guards[1].span.ctx.span_id
    /\ FlagsSegment(Emitted) = <<"0", "1">>

\* the last call was one of the two activation policies
IsActivation ==
    last.op \in {"start_with_traceparent", "start_with_spanlink"}

\* the call completed: it returned a guard for a new span, which is the
\* active span
ActivationCompleted ==
    /\ IsSome(last.ret)
    /\ current = Some(NewSpan)
    /\ guards # <<>>
    /\ guards[Len(guards)].span = NewSpan
    /\ NewSpan.ctx.span_id = FreshSpan(started)

\* the span the last activation policy starts when the slot is unset
StartedIfUnset ==
    IF last.op = "start_with_traceparent"
    THEN start_with_traceparent(None, ActiveBefore, FreshTrace(started),
                                FreshSpan(started), sampler)
    ELSE start_with_spanlink(None, ActiveBefore, FreshTrace(started),
                             FreshSpan(started), sampler)

\* C13 as stated: in every slot state both activation policies complete,
\* leave a new span active and return a guard; with a malformed or unset
\* slot the span is a fresh unparented span with no link.
C13_Original ==
    IsActivation
        => /\ ActivationCompleted
           /\ ~IsSome(Ambient)
                => /\ IsFreshRoot(NewSpan)
                   /\ NewSpan.links = {}

\* C13 amended: in every slot state both activation policies complete,
\* leave a new span active and return a guard; a malformed slot value
\* gives the span an unset slot gives, which has no link and is a fresh
\* unparented span when no span is active at the call and a child of the
\* active span when one is.
C13_ActivationTotal ==
    IsActivation
        => /\ ActivationCompleted
           /\ ~IsSome(Ambient)
                => /\ NewSpan = StartedIfUnset
                   /\ NewSpan.links = {}
                   /\ IF ActiveBefore = None
                      THEN IsFreshRoot(NewSpan)
                      ELSE IsChildOf(NewSpan,
                                     Unwrap(ActiveBefore).ctx.trace_id,
                                     Unwrap(ActiveBefore).ctx.span_id)

\* start_with_traceparent completed under a malformed slot value with no
\* span active, and started a fresh unparented span
C13_Witness ==
    /\ last.op = "start_with_traceparent"
    /\ TRACEPARENT = Some(NonHex)
    /\ ActiveBefore = None
    /\ current = Some(NewSpan)
    /\ IsFreshRoot(NewSpan)
    /\ NewSpan.links = {}

\* the parent context start_with_traceparent hands to the tracer for an
\* ambient traceparent
ParentContext(tp) == with_remote_span_context(as_spancontext(tp))

\* the traceparent with the given flags byte, otherwise the same
WithFlags(tp, f) == [tp EXCEPT !.flags = f]

\* C14: the parent context built from the ambient traceparent has the
\* sampled flag set whatever the ambient flags byte is: it is the one built
\* from the same traceparent with flags 00 and with flags 01 (same ids,
\* sampled), and the span that start_with_traceparent starts is the one
\* started under either of them, and is sampled.
C14_RemoteAlwaysSampled ==
    (last.op = "start_with_traceparent" /\ IsSome(Ambient))
        => /\ span_context(ParentContext(Unwrap(Ambient))).flags = SAMPLED
           /\ \A f \in {0, 1} :
                  /\ ParentContext(WithFlags(Unwrap(Ambient), f))
                         = ParentContext(Unwrap(Ambient))
                  /\ NewSpan = start_with_context(
                                   ParentContext(WithFlags(Unwrap(Ambient), f)),
                                   FreshTrace(started), FreshSpan(started),
                                   sampler)
           /\ span_context(ParentContext(Unwrap(Ambient))).trace_id
                  = Unwrap(Ambient).trace_id
           /\ span_context(ParentContext(Unwrap(Ambient))).span_id
                  = Unwrap(Ambient).parent_id
           /\ NewSpan.ctx.flags = SAMPLED

\* a span was continued from an ambient context with flags 00 while the
\* sampler drops root spans, and it is sampled
C14_Witness ==
    /\ last.op = "start_with_traceparent"
    /\ TRACEPARENT = Some(TxtA0)
    /\ Unwrap(Ambient).flags = 0
    /\ ~sampler
    /\ NewSpan.parent_id = P1
    /\ NewSpan.ctx.flags = SAMPLED

\* the last update wrote the slot: the slot holds the text of the call,
\* which is not what it held before
Wrote == TRACEPARENT = last.arg /\ TRACEPARENT # last.pre

\* C15: update returns a context exactly when the call wrote the slot, the
\* context carrying the trace id and the parent id decoded from the text
\* written; it returns nothing exactly when the slot is as it was.
C15_ResultReportsChange ==
    Updated
        => /\ IsSome(last.ret) <=> Wrote
           /\ IsSome(last.ret)
                => /\ IsSome(parse(Unwrap(TRACEPARENT)))
                   /\ Unwrap(last.ret).trace_id
                          = Unwrap(parse(Unwrap(TRACEPARENT))).trace_id
                   /\ Unwrap(last.ret).span_id
                          = Unwrap(parse(Unwrap(TRACEPARENT))).parent_id
           /\ (last.ret = None) <=> (TRACEPARENT = last.pre)

\* an update replaced one valid context by another and returned the ids of
\* the text it wrote
C15_Witness ==
    /\ Updated
    /\ last.pre = Some(TxtA)
    /\ last.arg = Some(TxtB)
    /\ TRACEPARENT = Some(TxtB)
    /\ IsSome(last.ret)
    /\ Unwrap(last.ret).trace_id = T2
    /\ Unwrap(last.ret).span_id = P2

\* the slot is unset or holds text that parse accepts
SlotValid(env) == IsSome(env) => IsSome(parse(Unwrap(env)))

\* the process starts with TRACEPARENT unset or holding well-formed text
InitValid == Init /\ SlotValid(TRACEPARENT)

SpecValid == InitValid /\ [][Next]_vars

\* C17: started with a slot that is unset or well-formed, every sequence
\* of read, update, activation, emit and release calls leaves the slot
\* unset or holding text that parse accepts; no call clears a set slot, and
\* a call that changes the slot stores text that parse accepts.
C17_SlotValidity ==
    /\ []SlotValid(TRACEPARENT)
    /\ [][/\ IsSome(TRACEPARENT) => IsSome(TRACEPARENT')
          /\ TRACEPARENT' # TRACEPARENT => /\ IsSome(TRACEPARENT')
                                           /\ SlotValid(TRACEPARENT')]_vars

\* after an update that stored a text and an update with a rejected text,
\* the slot still holds the stored text
C17_Witness ==
    /\ Updated
    /\ last.arg = Some(BadVersion)
    /\ last.pre = Some(TxtB)
    /\ TRACEPARENT = Some(TxtB)
    /\ IsSome(parse(Unwrap(TRACEPARENT)))

\* the last call was an update with the text that emit returns for the
\* active span, and the active span continues the context that was stored
\* when one was: the update that ends a hop
HopUpdated ==
    /\ Updated
    /\ IsSome(current)
    /\ last.arg = generate_traceparent(current)
    /\ IsSome(read_traceparent(last.pre))
         => IsChildOf(Unwrap(current),
                      Unwrap(read_traceparent(last.pre)).trace_id,
                      Unwrap(read_traceparent(last.pre)).parent_id)

\* C18: every text that emit returns is accepted by parse.  In a hop
\* (start_with_traceparent, then emit, then update with the emitted text)
\* the activation leaves the new span active, a continuation of the stored
\* context when there is one, for which emit returns a text; the update
\* reports a change and stores the id of the active span as parent id,
\* under the trace id that was stored before the hop when a valid context
\* was stored; and the slot it leaves is valid, so that the next hop
\* continues the same trace.
C18_ForwardingChain ==
    /\ (last.op = "emit" /\ IsSome(last.ret)) => IsSome(parse(Emitted))
    /\ last.op = "start_with_traceparent"
         => /\ current = Some(NewSpan)
            /\ IsSome(generate_traceparent(current))
            /\ IsSome(Ambient)
                 => IsChildOf(NewSpan, Unwrap(Ambient).trace_id,
                              Unwrap(Ambient).parent_id)
    /\ HopUpdated
         => /\ IsSome(last.ret)
            /\ TRACEPARENT = last.arg
            /\ IsSome(Ambient)
            /\ Unwrap(Ambient).parent_id = Unwrap(current).ctx.span_id
            /\ IsSome(read_traceparent(last.pre))
                 => Unwrap(Ambient).trace_id
                        = Unwrap(read_traceparent(last.pre)).trace_id

\* two hops have been made from the context of TxtA: the slot holds the
\* trace id of TxtA and the id of the second span, which continues the
\* first span, which continues TxtA
C18_Witness ==
    /\ Updated
    /\ IsSome(last.ret)
    /\ Len(guards) = 2
    /\ guards[1].span.parent_id = P1
    /\ guards[1].span.links = {}
    /\ guards[2].span.parent_id = guards[1].span.ctx.span_id
    /\ guards[2].span.links = {}
    /\ current = Some(guards[2].span)
    /\ IsSome(Ambient)
    /\ Unwrap(Ambient).trace_id = T1
    /\ Unwrap(Ambient).parent_id = guards[2].span.ctx.span_id
    /\ IsSome(read_traceparent(last.pre))
    /\ Unwrap(read_traceparent(last.pre)).trace_id = T1
    /\ Unwrap(read_traceparent(last.pre)).parent_id
           = guards[1].span.ctx.span_id

(***************************************************************************)
(* Concurrent calls of update_traceparent.  A call reads the slot          *)
(* (read_traceparent, one access of the environment), then parses and      *)
(* compares its argument and, when it differs, writes the slot (set_var, a *)
(* second access); another thread may run between the two accesses.        *)
(***************************************************************************)
Threads == {1, 2}

\* the texts the concurrent callers pass
RaceTexts == {TxtA, TxtA0, TxtB, NonHex}

\* an update_traceparent that reads the slot again when it compares
update_after_read_reread(cur, env, new_traceparent) ==
    update_traceparent(env, new_traceparent)

\* update_traceparent from the comparison on, cur being what its
\* read_traceparent returned and env the slot as it is now
update_after_read(cur, env, new_traceparent) ==
    LET current_tp == IF IsSome(cur) THEN Unwrap(cur) ELSE make_bogus
        parsed == parse(new_traceparent)
    IN  IF IsSome(parsed) THEN
            IF Unwrap(parsed) = current_tp
            THEN [env |-> env, ret |-> None]
            ELSE [env |-> Some(new_traceparent),
                  ret |-> Some(as_spancontext(Unwrap(parsed)))]
        ELSE [env |-> env, ret |-> None]

InitRace ==
    /\ TRACEPARENT \in {None} \cup {Some(t) : t \in InitialTexts}
    /\ sampler = TRUE
    /\ current = None
    /\ guards = <<>>
    /\ started = 0
    /\ last = NoCall
    /\ OTEL_SERVICE_NAME = None
    /\ subscriber = NoSubscriber
    /\ race \in {[th |-> [t \in Threads |->
                            [pc |-> "called", arg |-> IF t = 1 THEN a ELSE b,
                             cur |-> None, ret |-> None]],
                  events |-> <<>>,
                  env0 |-> TRACEPARENT] : a \in RaceTexts, b \in RaceTexts}

\* thread t reads the slot
RaceRead(t) ==
    /\ race.th[t].pc = "called"
    /\ race' = [race EXCEPT !.th[t].pc = "read",
                            !.th[t].cur = read_traceparent(TRACEPARENT),
                            !.events = Append(@, <<t, "read">>)]
    /\ UNCHANGED <<TRACEPARENT, sampler, current, guards, started, last,
                   OTEL_SERVICE_NAME, subscriber>>

\* thread t compares, writes the slot when the contexts differ, and returns
RaceWrite(t) ==
    /\ race.th[t].pc = "read"
    /\ LET r == update_after_read(race.th[t].cur, TRACEPARENT,
                                  race.th[t].arg)
       IN  /\ TRACEPARENT' = r.env
           /\ race' = [race EXCEPT
                           !.th[t].pc = "done",
                           !.th[t].ret = r.ret,
                           !.events = Append(@, <<t, IF IsSome(r.ret)
                                                     THEN "write"
                                                     ELSE "return">>)]
    /\ UNCHANGED <<sampler, current, guards, started, last,
                   OTEL_SERVICE_NAME, subscriber>>

NextRace ==
    \E t \in Threads :
        \/ RaceRead(t)
        \/ RaceWrite(t)

SpecRace == InitRace /\ [][NextRace]_vars

\* both calls have returned
RaceDone == \A t \in Threads : race.th[t].pc = "done"

\* the threads that wrote the slot, and the one that wrote last
Writers == {race.events[i][1] : i \in {j \in 1..Len(race.events) :
                                            race.events[j][2] = "write"}}

LastWriter ==
    race.events[CHOOSE i \in 1..Len(race.events) :
                    /\ race.events[i][2] = "write"
                    /\ \A j \in (i + 1)..Len(race.events) :
                           race.events[j][2] # "write"][1]

\* both calls read the slot before either of them went on
BothReadFirst ==
    /\ Len(race.events) >= 2
    /\ race.events[1][2] = "read"
    /\ race.events[2][2] = "read"

\* what the two calls return and leave in the slot when the call of thread
\* first runs to its end before the other starts
SerialOutcome(first, second) ==
    LET r1 == update_traceparent(race.env0, race.th[first].arg)
        r2 == update_traceparent(r1.env, race.th[second].arg)
    IN  [env |-> r2.env,
         ret |-> [t \in Threads |-> IF t = first THEN r1.ret ELSE r2.ret]]

RaceOutcome ==
    [env |-> TRACEPARENT, ret |-> [t \in Threads |-> race.th[t].ret]]

IsSerial == RaceOutcome \in {SerialOutcome(1, 2), SerialOutcome(2, 1)}

\* C12: update is a read-compare-write that is not atomic.  Once two
\* concurrent calls have returned: a call reported a change exactly when it
\* wrote; the slot holds the text of the call that wrote last (what it held
\* at the start when none wrote), so the context an earlier writer
\* reported is no longer stored when the two differ; calls that both read
\* before either wrote each decided against the slot as it was at the
\* start; and an outcome that no serial order produces arises only then.
C12_RaceOutcome ==
    RaceDone
        => /\ \A t \in Threads : IsSome(race.th[t].ret) <=> t \in Writers
           /\ IF Writers = {} THEN TRACEPARENT = race.env0
              ELSE TRACEPARENT = Some(race.th[LastWriter].arg)
           /\ \A t \in Writers :
                  parse(race.th[t].arg) # parse(race.th[LastWriter].arg)
                      => read_traceparent(TRACEPARENT) # parse(race.th[t].arg)
           /\ BothReadFirst
                  => \A t \in Threads :
                         race.th[t].ret =
                             update_traceparent(race.env0, race.th[t].arg).ret
           /\ ~IsSerial => BothReadFirst

\* two calls with the same valid text both reported a change, which no
\* serial order of the two calls produces
C12_Witness ==
    /\ race # NoRace
    /\ RaceDone
    /\ race.th[1].arg = TxtB
    /\ race.th[2].arg = TxtB
    /\ IsSome(race.th[1].ret)
    /\ IsSome(race.th[2].ret)
    /\ ~IsSerial

(***************************************************************************)
(* Process initialisation: init(name).                                     *)
(***************************************************************************)
\* a continuation byte of UTF-8
IsCont(b) == b >= 128 /\ b <= 191

\* the number of bytes of the UTF-8 sequence that starts at position i of
\* the bytes, 0 when no well-formed sequence starts there
Utf8Width(bytes, i) ==
    LET n == Len(bytes)
        b0 == bytes[i]
        b1 == IF i + 1 <= n THEN bytes[i + 1] ELSE 0
        b2 == IF i + 2 <= n THEN bytes[i + 2] ELSE 0
        b3 == IF i + 3 <= n THEN bytes[i + 3] ELSE 0
    IN  IF b0 <= 127 THEN 1
        ELSE IF b0 >= 194 /\ b0 <= 223
        THEN IF IsCont(b1) THEN 2 ELSE 0
        ELSE IF b0 = 224
        THEN IF b1 >= 160 /\ b1 <= 191 /\ IsCont(b2) THEN 3 ELSE 0
        ELSE IF (b0 >= 225 /\ b0 <= 236) \/ b0 = 238 \/ b0 = 239
        THEN IF IsCont(b1) /\ IsCont(b2) THEN 3 ELSE 0
        ELSE IF b0 = 237
        THEN IF b1 >= 128 /\ b1 <= 159 /\ IsCont(b2) THEN 3 ELSE 0
        ELSE IF b0 = 240
        THEN IF b1 >= 144 /\ b1 <= 191 /\ IsCont(b2) /\ IsCont(b3)
             THEN 4 ELSE 0
        ELSE IF b0 >= 241 /\ b0 <= 243
        THEN IF IsCont(b1) /\ IsCont(b2) /\ IsCont(b3) THEN 4 ELSE 0
        ELSE IF b0 = 244
        THEN IF b1 >= 128 /\ b1 <= 143 /\ IsCont(b2) /\ IsCont(b3)
             THEN 4 ELSE 0
        ELSE 0

RECURSIVE IsUtf8From(_, _)
IsUtf8From(bytes, i) ==
    IF i > Len(bytes) THEN TRUE
    ELSE LET w == Utf8Width(bytes, i) IN
         IF w = 0 THEN FALSE ELSE IsUtf8From(bytes, i + w)

\* the bytes are valid Unicode (UTF-8)
IsUtf8(bytes) == IsUtf8From(bytes, 1)

\* std::env::var: Some(value) for Ok, None for Err, which is returned when
\* the variable is not present and when its value is not valid Unicode
env_var(env) ==
    IF IsSome(env) /\ IsUtf8(Unwrap(env)) THEN Some(Unwrap(env)) ELSE None

\* the values the environment may hold for OTEL_SERVICE_NAME at start: the
\* empty value, "svc", "caf" followed by e-acute, a lone byte FF, "s"
\* followed by a stray continuation byte
ServiceValues ==
    {<<>>, <<115, 118, 99>>, <<99, 97, 102, 195, 169>>, <<255>>, <<115, 128>>}

\* the names passed to init ("app", "svc", "web", "d" followed by u-umlaut):
\* string literals, so valid Unicode, and without a NUL byte, which
\* set_var does not accept
ServiceNames ==
    {<<97, 112, 112>>, <<115, 118, 99>>, <<119, 101, 98>>, <<100, 195, 188>>}

\* the global default subscriber at start: none, or one the host program
\* has set
InitialSubscribers == {NoSubscriber, "host"}

\* init: the variable and the global default subscriber after the call,
\* and the value returned.  exporter_ok tells whether the exporter
\* pipeline can be built; init_subscribers and set_global_default both
\* fail when a global default subscriber is already set.
init(env, sub, name, exporter_ok) ==
    LET env1 == IF IsSome(env_var(env)) THEN env ELSE Some(name) IN
    IF exporter_ok /\ sub = NoSubscriber
    THEN [env |-> env1, sub |-> "exporter", ret |-> "Ok(Some(guard))"]
    ELSE IF sub = NoSubscriber
    THEN [env |-> env1, sub |-> "local", ret |-> "Ok(None)"]
    ELSE [env |-> env1, sub |-> sub, ret |-> "Err"]

InitProcess ==
    /\ TRACEPARENT = None
    /\ sampler = TRUE
    /\ current = None
    /\ guards = <<>>
    /\ started = 0
    /\ last = NoCall
    /\ race = NoRace
    /\ OTEL_SERVICE_NAME \in {None} \cup {Some(v) : v \in ServiceValues}
    /\ subscriber \in InitialSubscribers

\* a call of init
InitCall ==
    \E name \in ServiceNames, exporter_ok \in BOOLEAN :
        LET r == init(OTEL_SERVICE_NAME, subscriber, name, exporter_ok) IN
        /\ OTEL_SERVICE_NAME' = r.env
        /\ subscriber' = r.sub
        /\ last' = [op |-> "otel_tools::init", arg |-> Some(name),
                    ret |-> Some(r.ret), pre |-> OTEL_SERVICE_NAME]
        /\ UNCHANGED <<TRACEPARENT, sampler, current, guards, started, race>>

NextInit == InitCall

SpecInit == InitProcess /\ [][NextInit]_vars

\* C16: after init(name) the variable OTEL_SERVICE_NAME is set: to the
\* value it had when it was set before the call, to name when it was
\* absent, whether the exporter setup succeeded or fell back.
C16_Original ==
    last.op = "otel_tools::init"
        => /\ IsSome(OTEL_SERVICE_NAME)
           /\ IsSome(last.pre) => OTEL_SERVICE_NAME = last.pre
           /\ ~IsSome(last.pre) => OTEL_SERVICE_NAME = last.arg

====
